---- MODULE Spec2Model ----
(***************************************************************************)
(* EduMetrics: the Learning Insights Analyzer                               *)
(* (src/InsightDashboard/insights_analyzer.py).                             *)
(*                                                                         *)
(* The three base tables are the caller's DataFrames.  The analyzer keeps  *)
(* references to them (no copy), so the variables students, assessments    *)
(* and sessions are both the caller's tables and self.students,            *)
(* self.assessments, self.sessions.  files is the set of files the         *)
(* dashboard (src/InsightDashboard/dashboard.py) has written.              *)
(*                                                                         *)
(* Numbers.  A float is modelled exactly, as a rational [num, den] with    *)
(* den > 0.  NaN is 0/0, which is what the mean of an empty column is.     *)
(* None is the record [none |-> TRUE].  A standard deviation is kept as    *)
(* the rational under its square root (its variance).  A value rounded to  *)
(* two decimals is a rational with den = 100.                              *)
(***************************************************************************)
EXTENDS Integers, Sequences, FiniteSets, TLC

VARIABLES students, assessments, sessions, constructed, ret, firstReport, files

vars == <<students, assessments, sessions, constructed, ret, firstReport, files>>

tables == <<students, assessments, sessions>>

-----------------------------------------------------------------------------
(* Bounds of the model. *)

\* Longest score series of the series specification.
MaxSeries == 5

\* Most assessment rows and most study-session rows of the session specification.
MaxAssessments == 2

MaxSessions == 1

\* Most assessment rows and most study-session rows of the class specification.
MaxClassRows == 1

MaxClassSessions == 3

\* Most assessment rows of the ranking specification.
MaxRankingRows == 3

\* Most assessment rows of the topic specification.
MaxTopicRows == 3

\* Most assessment rows and most study-session rows of the recommendation
\* specification.
MaxRecRows == 2

MaxRecSessions == 2

\* Largest n handed to _get_top_students / _get_struggling_students directly.
MaxN == 2

-----------------------------------------------------------------------------
(* The universe of identifiers, each in ascending (sorted) order: the      *)
(* order pandas' groupby gives its keys.                                   *)

StudentIds == <<"STU001", "STU002", "STU003">>

Subjects == <<"Mathematics", "Science">>

TopicKeys ==
    << <<"Mathematics", "Algebra">>, <<"Mathematics", "Geometry">>,
       <<"Mathematics", "Statistics">>, <<"Science", "Physics">> >>

\* The text of a date as a CSV or a caller holds it; its index is the day.
DateText ==
    <<"2024-01-01", "2024-01-02", "2024-01-03", "2024-01-04", "2024-01-05",
      "2024-01-06", "2024-01-07">>

Range(s) == {s[i] : i \in 1..Len(s)}

IndexOf(s, x) == CHOOSE i \in 1..Len(s) : s[i] = x

-----------------------------------------------------------------------------
(* Dates: a string (before pd.to_datetime) or a timestamp (after).         *)

StrDate(d) == [kind |-> "str", text |-> DateText[d], day |-> 0]

Timestamp(d) == [kind |-> "datetime", text |-> "", day |-> d]

\* pd.to_datetime on one value: a string is parsed, a timestamp is kept.
to_datetime(v) ==
    IF v.kind = "str" THEN Timestamp(IndexOf(DateText, v.text)) ELSE v

-----------------------------------------------------------------------------
(* Numbers. *)

Rat(n, d) == [num |-> n, den |-> d]

NaN == Rat(0, 0)

None == [none |-> TRUE]

IsNaN(v) == v = NaN

IsNumber(v) == DOMAIN v = {"num", "den"} /\ v.den > 0

\* IEEE comparisons: every comparison with NaN is false.
Lt(a, b) == a.den > 0 /\ b.den > 0 /\ a.num * b.den < b.num * a.den

Gt(a, b) == Lt(b, a)

Ge(a, b) == a.den > 0 /\ b.den > 0 /\ a.num * b.den >= b.num * a.den

Eq(a, b) == a.den > 0 /\ b.den > 0 /\ a.num * b.den = b.num * a.den

Int2Rat(n) == Rat(n, 1)

SeqSum(s) ==
    LET f[i \in 0..Len(s)] == IF i = 0 THEN 0 ELSE f[i - 1] + s[i]
    IN  f[Len(s)]

\* Series.mean(): sum / count; 0/0 = NaN on an empty series.
Mean(s) == Rat(SeqSum(s), Len(s))

\* Rounding to the nearest 1/scale, ties to even; NaN stays NaN.
RoundTo(x, scale) ==
    IF x.den = 0 THEN NaN
    ELSE LET n == x.num * scale
             q == n \div x.den
             r == n % x.den
         IN  Rat(IF 2 * r > x.den \/ (2 * r = x.den /\ q % 2 = 1) THEN q + 1 ELSE q,
                 scale)

\* round(x, 2)
Round2(x) == RoundTo(x, 100)

\* f"{x:.1f}"
Format1f(x) == RoundTo(x, 10)

Neg(a) == Rat(-a.num, a.den)

\* numpy argsort of a column of numbers, ascending: the row positions in
\* sorted order.  numpy's default sort is an insertion sort below 17
\* elements, so equal keys keep their order in every table of this model.
argsort(keys) ==
    LET f[i \in 0..Len(keys)] ==
            IF i = 0 THEN <<>>
            ELSE LET prev == f[i - 1]
                     k == Cardinality({j \in 1..Len(prev) : ~Lt(keys[i], keys[prev[j]])})
                 IN  SubSeq(prev, 1, k) \o <<i>> \o SubSeq(prev, k + 1, Len(prev))
    IN  f[Len(keys)]

\* df.sort_values(by, ascending): the rows of df in the order of keys (the
\* by column); descending keeps equal keys in their order too.
sort_values(df, keys, ascending) ==
    LET order == argsort(IF ascending THEN keys
                         ELSE [i \in 1..Len(keys) |-> Neg(keys[i])])
    IN  [i \in 1..Len(df) |-> df[order[i]]]

Head_n(s, n) == SubSeq(s, 1, IF n < Len(s) THEN n ELSE Len(s))

Tail_n(s, n) == SubSeq(s, IF Len(s) > n THEN Len(s) - n + 1 ELSE 1, Len(s))

\* Series.var(ddof): (n * sum(y^2) - sum(y)^2) / (n * (n - ddof)); NaN (0/0)
\* when n - ddof = 0.  The standard deviation is its square root.
SumSq(s) == SeqSum([i \in 1..Len(s) |-> s[i] * s[i]])

Variance(s, ddof) ==
    IF Len(s) - ddof <= 0 THEN NaN
    ELSE Rat(Len(s) * SumSq(s) - SeqSum(s) * SeqSum(s), Len(s) * (Len(s) - ddof))

\* pandas Series.std(): ddof = 1.
pandas_std(s) == Variance(s, 1)

\* numpy ndarray.std(): ddof = 0.
numpy_std(s) == Variance(s, 0)

\* std < t for a std kept as its variance.
StdLt(v, t) == v.den > 0 /\ v.num < t * t * v.den

\* Series.median().
Median(s) ==
    LET srt == sort_values(s, [i \in 1..Len(s) |-> Int2Rat(s[i])], TRUE)
        n == Len(s)
    IN  IF n = 0 THEN NaN
        ELSE IF n % 2 = 1 THEN Rat(srt[(n + 1) \div 2], 1)
        ELSE Rat(srt[n \div 2] + srt[n \div 2 + 1], 2)

-----------------------------------------------------------------------------
(* Row selection. *)

Scores(df) == [i \in 1..Len(df) |-> df[i].score]

\* self.assessments[self.assessments['student_id'] == student_id]
StudentAssessments(student_id) ==
    SelectSeq(assessments, LAMBDA r : r.student_id = student_id)

\* self.sessions[self.sessions['student_id'] == student_id]
StudentSessions(student_id) ==
    SelectSeq(sessions, LAMBDA r : r.student_id = student_id)

\* The rows left in table order: no sort_values('assessment_date').
SortByDate_TableOrder(df) == df

\* df.sort_values('assessment_date').reset_index(drop=True)
SortByDate(df) ==
    sort_values(df, [i \in 1..Len(df) |-> Int2Rat(df[i].assessment_date.day)], TRUE)

\* Series of booleans .sum(): the number of True.
CountTrue(df) == Len(SelectSeq(df, LAMBDA r : r.completed))

\* The keys of a groupby, ascending (groupby sorts its keys).
SubjectsOf(df) ==
    SelectSeq(Subjects, LAMBDA k : \E i \in 1..Len(df) : df[i].subject = k)

TopicKeysOf(df) ==
    SelectSeq(TopicKeys, LAMBDA k : \E i \in 1..Len(df) :
                                        <<df[i].subject, df[i].topic>> = k)

StudentIdsOf(df) ==
    SelectSeq(StudentIds, LAMBDA k : \E i \in 1..Len(df) : df[i].student_id = k)

-----------------------------------------------------------------------------
(* _calculate_improvement_trend *)

\* The least-squares slope of y against the positions 0, 1, ..., n-1:
\* sum((x - mean(x)) * y) / sum((x - mean(x))^2), both doubled to stay in
\* the integers: 2 * Sxy = sum((2x - (n-1)) * y) and 2 * Sxx = n(n^2-1)/6.
OLSSlope(y) ==
    LET n == Len(y)
    IN  Rat(SeqSum([i \in 1..n |-> (2 * (i - 1) - (n - 1)) * y[i]]),
            (n * (n * n - 1)) \div 6)

\* The comparisons with the lower bounds made inclusive (>= for > on the
\* negative side).
TrendLabel_InclusiveLower(slope) ==
    IF Gt(slope, Rat(5, 10)) THEN "Strong Improvement"
    ELSE IF Gt(slope, Rat(1, 10)) THEN "Moderate Improvement"
    ELSE IF Ge(slope, Rat(-1, 10)) THEN "Stable"
    ELSE IF Ge(slope, Rat(-5, 10)) THEN "Slight Decline"
    ELSE "Needs Attention"

TrendLabel(slope) ==
    IF Gt(slope, Rat(5, 10)) THEN "Strong Improvement"
    ELSE IF Gt(slope, Rat(1, 10)) THEN "Moderate Improvement"
    ELSE IF Gt(slope, Rat(-1, 10)) THEN "Stable"
    ELSE IF Gt(slope, Rat(-5, 10)) THEN "Slight Decline"
    ELSE "Needs Attention"

\* The guard with <= for <: a series of exactly 5 is not fitted either.
calculate_improvement_trend_Through5(assessments_df) ==
    IF Len(assessments_df) <= 5 THEN "Insufficient Data"
    ELSE TrendLabel(OLSSlope(Scores(SortByDate(assessments_df))))

calculate_improvement_trend(assessments_df) ==
    IF Len(assessments_df) < 5 THEN "Insufficient Data"
    ELSE TrendLabel(OLSSlope(Scores(SortByDate(assessments_df))))

-----------------------------------------------------------------------------
(* get_student_performance_summary *)

\* student_assessments.groupby('subject')['score'].mean(): one entry per
\* subject the student has a row in, subjects ascending.
SubjectMeans(df) ==
    LET keys == SubjectsOf(df)
    IN  [i \in 1..Len(keys) |->
            [subject |-> keys[i],
             mean |-> Mean(Scores(SelectSeq(df, LAMBDA r : r.subject = keys[i])))]]

\* The first label of the series, whatever its value.
idxmax_First(series) == series[1].subject

\* Series.idxmax(): the first label holding the maximum.
idxmax(series) ==
    LET i == CHOOSE i \in 1..Len(series) :
                 /\ \A j \in 1..Len(series) : ~Gt(series[j].mean, series[i].mean)
                 /\ \A j \in 1..(i - 1) : Lt(series[j].mean, series[i].mean)
    IN  series[i].subject

\* Series.idxmin(): the first label holding the minimum.
idxmin(series) ==
    LET i == CHOOSE i \in 1..Len(series) :
                 /\ \A j \in 1..Len(series) : ~Lt(series[j].mean, series[i].mean)
                 /\ \A j \in 1..(i - 1) : Gt(series[j].mean, series[i].mean)
    IN  series[i].subject

get_student_performance_summary(student_id) ==
    LET student_assessments == StudentAssessments(student_id)
        student_sessions == StudentSessions(student_id)
    IN  IF Len(student_assessments) = 0 THEN None
        ELSE [student_id |-> student_id,
              total_assessments |-> Len(student_assessments),
              average_score |-> Mean(Scores(student_assessments)),
              median_score |-> Median(Scores(student_assessments)),
              score_std |-> pandas_std(Scores(student_assessments)),
              best_subject |-> idxmax(SubjectMeans(student_assessments)),
              weakest_subject |-> idxmin(SubjectMeans(student_assessments)),
              total_study_time |->
                  SeqSum([i \in 1..Len(student_sessions) |-> student_sessions[i].duration_minutes]),
              completion_rate |->
                  Rat(100 * CountTrue(student_sessions), Len(student_sessions)),
              improvement_trend |-> calculate_improvement_trend(student_assessments)]

-----------------------------------------------------------------------------
(* identify_weak_topics, identify_strong_topics *)

\* student_data.groupby(['subject', 'topic']).agg({'score': ['mean', 'count']})
TopicPerformance(student_id) ==
    LET student_data == StudentAssessments(student_id)
        keys == TopicKeysOf(student_data)
    IN  [i \in 1..Len(keys) |->
            LET rows == SelectSeq(student_data,
                            LAMBDA r : r.subject = keys[i][1] /\ r.topic = keys[i][2])
            IN  [subject |-> keys[i][1], topic |-> keys[i][2],
                 avg_score |-> Mean(Scores(rows)), attempts |-> Len(rows)]]

\* The weak filter with <= for <.
identify_weak_topics_Inclusive(student_id, threshold) ==
    LET weak_topics == SelectSeq(TopicPerformance(student_id),
                           LAMBDA t : Ge(Int2Rat(threshold), t.avg_score))
    IN  sort_values(weak_topics,
                    [i \in 1..Len(weak_topics) |-> weak_topics[i].avg_score], TRUE)

\* The weak filter without the sort that follows it: groupby's key order.
identify_weak_topics_Unsorted(student_id, threshold) ==
    SelectSeq(TopicPerformance(student_id),
              LAMBDA t : Lt(t.avg_score, Int2Rat(threshold)))

identify_weak_topics(student_id, threshold) ==
    LET weak_topics == SelectSeq(TopicPerformance(student_id),
                           LAMBDA t : Lt(t.avg_score, Int2Rat(threshold)))
    IN  sort_values(weak_topics,
                    [i \in 1..Len(weak_topics) |-> weak_topics[i].avg_score], TRUE)

identify_strong_topics(student_id, threshold) ==
    LET strong_topics == SelectSeq(TopicPerformance(student_id),
                             LAMBDA t : Ge(t.avg_score, Int2Rat(threshold)))
    IN  sort_values(strong_topics,
                    [i \in 1..Len(strong_topics) |-> strong_topics[i].avg_score], FALSE)

\* The default thresholds of the two signatures.
WeakThreshold == 70

StrongThreshold == 85

-----------------------------------------------------------------------------
(* predict_performance *)

\* np.array([0.1, 0.15, 0.2, 0.25, 0.3]), in hundredths.
Weights == <<10, 15, 20, 25, 30>>

\* The weights taken from the other end: np.array([...])[-len(recent_scores):]
TruncatedWeights_Suffix(k) == SubSeq(Weights, Len(Weights) - k + 1, Len(Weights))

\* np.array([...])[:len(recent_scores)]
TruncatedWeights(k) == SubSeq(Weights, 1, k)

\* np.average(recent_scores, weights = weights / weights.sum())
WeightedAverage(recent_scores, weights) ==
    Rat(SeqSum([i \in 1..Len(recent_scores) |-> weights[i] * recent_scores[i]]),
        SeqSum(weights))

Confidence(score_std) ==
    IF StdLt(score_std, 5) THEN "High"
    ELSE IF StdLt(score_std, 10) THEN "Medium"
    ELSE "Low"

\* The trend taken over the rows of the forecast window only.
predict_performance_WindowTrend(student_id, subject) ==
    LET student_data == SelectSeq(assessments,
                            LAMBDA r : r.student_id = student_id /\ r.subject = subject)
        sorted == SortByDate(student_data)
        recent_scores == Tail_n(Scores(sorted), 5)
        weights == TruncatedWeights(Len(recent_scores))
    IN  IF Len(student_data) < 3
        THEN [prediction |-> None, confidence |-> "Low", message |-> "Insufficient data"]
        ELSE [prediction |-> Round2(WeightedAverage(recent_scores, weights)),
              confidence |-> Confidence(numpy_std(recent_scores)),
              recent_trend |-> calculate_improvement_trend(Tail_n(sorted, 5))]

\* The guard with 2 for 3: two scores are enough for a forecast.
predict_performance_MinimumTwo(student_id, subject) ==
    LET student_data == SelectSeq(assessments,
                            LAMBDA r : r.student_id = student_id /\ r.subject = subject)
        sorted == SortByDate(student_data)
        recent_scores == Tail_n(Scores(sorted), 5)
        weights == TruncatedWeights(Len(recent_scores))
    IN  IF Len(student_data) < 2
        THEN [prediction |-> None, confidence |-> "Low", message |-> "Insufficient data"]
        ELSE [prediction |-> Round2(WeightedAverage(recent_scores, weights)),
              confidence |-> Confidence(numpy_std(recent_scores)),
              recent_trend |-> calculate_improvement_trend(sorted)]

predict_performance(student_id, subject) ==
    LET student_data == SelectSeq(assessments,
                            LAMBDA r : r.student_id = student_id /\ r.subject = subject)
        sorted == SortByDate(student_data)
        recent_scores == Tail_n(Scores(sorted), 5)
        weights == TruncatedWeights(Len(recent_scores))
    IN  IF Len(student_data) < 3
        THEN [prediction |-> None, confidence |-> "Low", message |-> "Insufficient data"]
        ELSE [prediction |-> Round2(WeightedAverage(recent_scores, weights)),
              confidence |-> Confidence(numpy_std(recent_scores)),
              recent_trend |-> calculate_improvement_trend(sorted)]

-----------------------------------------------------------------------------
(* get_study_recommendations *)

SkillGap(top_weak) ==
    [priority |-> "High", type |-> "Skill Gap",
     message |-> [text |-> "Focus on improving: ",
                  args |-> [i \in 1..Len(top_weak) |-> top_weak[i].topic]],
     details |-> top_weak]

StudyHabits(completion_rate) ==
    [priority |-> "Medium", type |-> "Study Habits",
     message |-> [text |-> "Improve study session completion rate (currently %)",
                  args |-> <<Format1f(Rat(100 * completion_rate.num, completion_rate.den))>>],
     suggestion |-> "Break study sessions into smaller, manageable chunks"]

TimeInvestment(avg_time) ==
    [priority |-> "Low", type |-> "Time Investment",
     message |-> [text |-> "Consider spending more time on assessments for better understanding",
                  args |-> <<>>],
     current_avg |-> Format1f(avg_time)]

\* The three rules chained with elif: only the first applicable one fires.
get_study_recommendations_FirstRuleOnly(student_id) ==
    LET weak_topics == identify_weak_topics(student_id, 70)
        student_sessions == StudentSessions(student_id)
        completion_rate == Rat(CountTrue(student_sessions), Len(student_sessions))
        student_data == StudentAssessments(student_id)
        avg_time == Mean([i \in 1..Len(student_data) |->
                             student_data[i].time_spent_minutes])
    IN  IF Len(weak_topics) > 0 THEN <<SkillGap(Head_n(weak_topics, 3))>>
        ELSE IF Len(student_sessions) > 0 /\ Lt(completion_rate, Rat(7, 10))
        THEN <<StudyHabits(completion_rate)>>
        ELSE IF Len(student_data) > 0 /\ Lt(avg_time, Int2Rat(20))
        THEN <<TimeInvestment(avg_time)>>
        ELSE <<>>

get_study_recommendations(student_id) ==
    LET weak_topics == identify_weak_topics(student_id, 70)
        student_sessions == StudentSessions(student_id)
        completion_rate == Rat(CountTrue(student_sessions), Len(student_sessions))
        student_data == StudentAssessments(student_id)
        avg_time == Mean([i \in 1..Len(student_data) |->
                             student_data[i].time_spent_minutes])
    IN  (IF Len(weak_topics) > 0 THEN <<SkillGap(Head_n(weak_topics, 3))>> ELSE <<>>)
        \o (IF Len(student_sessions) > 0 /\ Lt(completion_rate, Rat(7, 10))
            THEN <<StudyHabits(completion_rate)>> ELSE <<>>)
        \o (IF Len(student_data) > 0 /\ Lt(avg_time, Int2Rat(20))
            THEN <<TimeInvestment(avg_time)>> ELSE <<>>)

-----------------------------------------------------------------------------
(* get_class_insights and its helpers *)

\* The student ids of a table in the order of their first rows.
FirstAppearance(df) ==
    LET f[i \in 0..Len(df)] ==
            IF i = 0 THEN <<>>
            ELSE IF df[i].student_id \in Range(f[i - 1]) THEN f[i - 1]
            ELSE Append(f[i - 1], df[i].student_id)
    IN  f[Len(df)]

\* The grouping with groupby(..., sort=False): groups in table order.
StudentAvg_TableOrder ==
    LET keys == FirstAppearance(assessments)
    IN  [i \in 1..Len(keys) |->
            [student_id |-> keys[i],
             average_score |-> Mean(Scores(StudentAssessments(keys[i])))]]

\* self.assessments.groupby('student_id')['score'].mean(): student ids ascending.
StudentAvg ==
    LET keys == StudentIdsOf(assessments)
    IN  [i \in 1..Len(keys) |->
            [student_id |-> keys[i],
             average_score |-> Mean(Scores(StudentAssessments(keys[i])))]]

\* Series.nlargest(n), keep = 'first': descending, ties in the series' order.
nlargest(series, n) ==
    Head_n(sort_values(series,
                       [i \in 1..Len(series) |-> series[i].average_score], FALSE), n)

\* Series.nsmallest(n), keep = 'first': ascending, ties in the series' order.
nsmallest(series, n) ==
    Head_n(sort_values(series,
                       [i \in 1..Len(series) |-> series[i].average_score], TRUE), n)

get_top_students(n) == nlargest(StudentAvg, n)

get_struggling_students(n) == nsmallest(StudentAvg, n)

\* groupby('subject')['score'].agg(['mean', 'std', 'count']).to_dict('index')
analyze_subject_difficulty ==
    LET keys == SubjectsOf(assessments)
    IN  [k \in Range(keys) |->
            LET scores == Scores(SelectSeq(assessments, LAMBDA r : r.subject = k))
            IN  [mean |-> Mean(scores), std |-> pandas_std(scores), count |-> Len(scores)]]

\* The completion rate without its guard against zero sessions.
analyze_engagement_Unguarded ==
    LET total_sessions == Len(sessions)
        completed_sessions == CountTrue(sessions)
        completion_rate == Rat(completed_sessions * 100, total_sessions)
        avg_session_duration ==
            Mean([i \in 1..Len(sessions) |-> sessions[i].duration_minutes])
    IN  [total_sessions |-> total_sessions,
         completion_rate |-> Round2(completion_rate),
         avg_session_duration |-> Round2(avg_session_duration)]

analyze_engagement ==
    LET total_sessions == Len(sessions)
        completed_sessions == CountTrue(sessions)
        completion_rate == IF total_sessions > 0
                           THEN Rat(completed_sessions * 100, total_sessions)
                           ELSE Int2Rat(0)
        avg_session_duration ==
            Mean([i \in 1..Len(sessions) |-> sessions[i].duration_minutes])
    IN  [total_sessions |-> total_sessions,
         completion_rate |-> Round2(completion_rate),
         avg_session_duration |-> Round2(avg_session_duration)]

get_class_insights ==
    [total_students |-> Len(students),
     total_assessments |-> Len(assessments),
     class_average |-> Mean(Scores(assessments)),
     top_performers |-> get_top_students(5),
     struggling_students |-> get_struggling_students(5),
     subject_difficulty |-> analyze_subject_difficulty,
     engagement_metrics |-> analyze_engagement]

-----------------------------------------------------------------------------
(* generate_insight_report *)

\* The report assembled without the check of an absent summary.
generate_insight_report_NoErrorCheck(student_id, now) ==
    [student_id |-> student_id,
     generated_at |-> now,
     performance_summary |-> get_student_performance_summary(student_id),
     weak_topics |-> identify_weak_topics(student_id, WeakThreshold),
     strong_topics |-> identify_strong_topics(student_id, StrongThreshold),
     subject_predictions |->
         [subject \in {r.subject : r \in Range(StudentAssessments(student_id))} |->
             predict_performance(student_id, subject)],
     recommendations |-> get_study_recommendations(student_id)]

\* The report with the time of the call also written into the summary.
generate_insight_report_StampedSummary(student_id, now) ==
    LET summary == get_student_performance_summary(student_id)
        subjects == {r.subject : r \in Range(StudentAssessments(student_id))}
    IN  IF summary = None
        THEN [error |-> "No data available for this student"]
        ELSE [student_id |-> student_id,
              generated_at |-> now,
              performance_summary |->
                  [k \in DOMAIN summary \cup {"generated_at"} |->
                      IF k = "generated_at" THEN Int2Rat(now) ELSE summary[k]],
              weak_topics |-> identify_weak_topics(student_id, WeakThreshold),
              strong_topics |-> identify_strong_topics(student_id, StrongThreshold),
              subject_predictions |->
                  [subject \in subjects |-> predict_performance(student_id, subject)],
              recommendations |-> get_study_recommendations(student_id)]

generate_insight_report(student_id, now) ==
    LET summary == get_student_performance_summary(student_id)
        subjects == {r.subject : r \in Range(StudentAssessments(student_id))}
    IN  IF summary = None
        THEN [error |-> "No data available for this student"]
        ELSE [student_id |-> student_id,
              generated_at |-> now,
              performance_summary |-> summary,
              weak_topics |-> identify_weak_topics(student_id, WeakThreshold),
              strong_topics |-> identify_strong_topics(student_id, StrongThreshold),
              subject_predictions |->
                  [subject \in subjects |-> predict_performance(student_id, subject)],
              recommendations |-> get_study_recommendations(student_id)]

-----------------------------------------------------------------------------
(* The dashboard (dashboard.py) and the visualizer it calls (visualizer.py) *)

\* os.path.join(dir, f'{student_id}_{name}')
File(dir, student_id, name) == [dir |-> dir, student_id |-> student_id, name |-> name]

\* The three plots create_student_dashboard draws from the assessments, in
\* the order it draws them.
Plots == <<"progress", "subjects", "heatmap">>

\* matplotlib and seaborn are given the student's rows.  With rows they
\* draw all the plots; with no row (an empty frame, an empty pivot table)
\* what they do is theirs to decide: any of the plots may raise.  The
\* outcome is the number of plots drawn before one raised.
DrawnOutcomes(student_id) ==
    IF Len(StudentAssessments(student_id)) = 0 THEN 0..Len(Plots) ELSE {Len(Plots)}

\* plot_study_time_analysis returns None for a student without sessions.
StudyPlot(student_id) ==
    IF Len(StudentSessions(student_id)) = 0 THEN {} ELSE {"study_patterns"}

\* The files plt.savefig has written when drawn plots were drawn.
SavedPlots(student_id, drawn) ==
    {File("visualizations", student_id, Plots[i]) : i \in 1..drawn}
    \cup (IF drawn = Len(Plots)
          THEN {File("visualizations", student_id, name) : name \in StudyPlot(student_id)}
          ELSE {})

\* InsightsVisualizer.create_student_dashboard when no plot raised: the
\* dict of file paths.
create_student_dashboard(student_id) ==
    [name \in Range(Plots) \cup StudyPlot(student_id) |->
        File("visualizations", student_id, name)]

\* An exception that leaves the call.
Raised(exception) == [raised |-> exception]

\* LearningInsightsDashboard.generate_student_report, from the analyzer's
\* result on: report['visualizations'] is set and the result is what
\* json.dump writes; then report['performance_summary'] is read.
generate_student_report(student_id, now) ==
    LET report == generate_insight_report(student_id, now)
        saved == [k \in DOMAIN report \cup {"visualizations"} |->
                     IF k = "visualizations" THEN create_student_dashboard(student_id)
                     ELSE report[k]]
    IN  IF "performance_summary" \in DOMAIN saved THEN saved ELSE Raised("KeyError")

-----------------------------------------------------------------------------
(* The base tables.  Only the columns the analyzer reads are kept. *)

AssessmentRow(student_id, key, date, score, time_spent) ==
    [student_id |-> student_id, subject |-> key[1], topic |-> key[2],
     assessment_date |-> date, score |-> score, time_spent_minutes |-> time_spent]

SessionRow(student_id, date, duration, completed) ==
    [student_id |-> student_id, session_date |-> date,
     duration_minutes |-> duration, completed |-> completed]

AllStudents == [i \in 1..Len(StudentIds) |-> [student_id |-> StudentIds[i]]]

\* Every table of at most max rows drawn from rows.
Tables(rows, max) == UNION {[1..n -> rows] : n \in 0..max}

\* A date column as the caller holds it: text (a CSV, a list of dicts) or
\* timestamps (data_generator.py, or dashboard.load_data after its own
\* pd.to_datetime).
DateKinds == {"str", "datetime"}

DateOf(kind, d) == IF kind = "str" THEN StrDate(d) ELSE Timestamp(d)

\* datetime.now(), as the caller's clock gives it.
Times == {1, 2}

NoCall == [op |-> "none", student_id |-> "", subject |-> "", n |-> 0, val |-> None]

Return(op, student_id, subject, n, val) ==
    [op |-> op, student_id |-> student_id, subject |-> subject, n |-> n, val |-> val]

Start(A, S) ==
    /\ students = AllStudents
    /\ assessments = A
    /\ sessions = S
    /\ constructed = FALSE
    /\ ret = NoCall
    /\ firstReport = None
    /\ files = {}

-----------------------------------------------------------------------------
(* The operations. *)

\* LearningInsightsAnalyzer(students_df, assessments_df, sessions_df): the
\* analyzer keeps the caller's frames and assigns the converted date columns
\* into them.
Construct ==
    /\ assessments' = [i \in 1..Len(assessments) |->
                          [assessments[i] EXCEPT !.assessment_date = to_datetime(@)]]
    /\ sessions' = [i \in 1..Len(sessions) |->
                       [sessions[i] EXCEPT !.session_date = to_datetime(@)]]
    /\ constructed' = TRUE
    /\ ret' = Return("__init__", "", "", 0, None)
    /\ UNCHANGED <<students, firstReport, files>>

SummaryCall(student_id) ==
    /\ constructed
    /\ ret' = Return("summary", student_id, "", 0,
                     get_student_performance_summary(student_id))
    /\ UNCHANGED <<tables, constructed, firstReport, files>>

\* self._calculate_improvement_trend(student_assessments), called on the rows
\* of one student as get_student_performance_summary calls it.
TrendCall(student_id) ==
    /\ constructed
    /\ ret' = Return("trend", student_id, "", 0,
                     calculate_improvement_trend(StudentAssessments(student_id)))
    /\ UNCHANGED <<tables, constructed, firstReport, files>>

WeakTopicsCall(student_id) ==
    /\ constructed
    /\ ret' = Return("weak_topics", student_id, "", 0,
                     identify_weak_topics(student_id, WeakThreshold))
    /\ UNCHANGED <<tables, constructed, firstReport, files>>

StrongTopicsCall(student_id) ==
    /\ constructed
    /\ ret' = Return("strong_topics", student_id, "", 0,
                     identify_strong_topics(student_id, StrongThreshold))
    /\ UNCHANGED <<tables, constructed, firstReport, files>>

PredictCall(student_id, subject) ==
    /\ constructed
    /\ ret' = Return("predict", student_id, subject, 0,
                     predict_performance(student_id, subject))
    /\ UNCHANGED <<tables, constructed, firstReport, files>>

RecommendCall(student_id) ==
    /\ constructed
    /\ ret' = Return("recommendations", student_id, "", 0,
                     get_study_recommendations(student_id))
    /\ UNCHANGED <<tables, constructed, firstReport, files>>

ClassInsightsCall ==
    /\ constructed
    /\ ret' = Return("class_insights", "", "", 0, get_class_insights)
    /\ UNCHANGED <<tables, constructed, firstReport, files>>

TopStudentsCall(n) ==
    /\ constructed
    /\ ret' = Return("top_students", "", "", n, get_top_students(n))
    /\ UNCHANGED <<tables, constructed, firstReport, files>>

StrugglingStudentsCall(n) ==
    /\ constructed
    /\ ret' = Return("struggling_students", "", "", n, get_struggling_students(n))
    /\ UNCHANGED <<tables, constructed, firstReport, files>>

\* firstReport remembers the first report this analyzer session returned.
ReportCall(student_id, now) ==
    /\ constructed
    /\ ret' = Return("report", student_id, "", 0,
                     generate_insight_report(student_id, now))
    /\ firstReport' = IF firstReport = None
                     THEN [student_id |-> student_id, report |-> ret'.val]
                     ELSE firstReport
    /\ UNCHANGED <<tables, constructed, files>>

\* LearningInsightsDashboard.load_data: the tables are read from the CSV
\* files (dates as text), the dashboard converts the two date columns and
\* constructs the analyzer on the same frames.
LoadData ==
    /\ assessments' = [i \in 1..Len(assessments) |->
                          [assessments[i] EXCEPT !.assessment_date = to_datetime(@)]]
    /\ sessions' = [i \in 1..Len(sessions) |->
                       [sessions[i] EXCEPT !.session_date = to_datetime(@)]]
    /\ constructed' = TRUE
    /\ ret' = Return("load_data", "", "", 0, None)
    /\ UNCHANGED <<students, firstReport, files>>

\* LearningInsightsDashboard.generate_student_report(student_id): the
\* plots, then the JSON file, then the printed summary.
GenerateStudentReportCall(student_id, now) ==
    /\ constructed
    /\ \E drawn \in DrawnOutcomes(student_id) :
           IF drawn < Len(Plots)
           THEN /\ files' = files \cup SavedPlots(student_id, drawn)
                /\ ret' = Return("generate_student_report", student_id, "", 0,
                                 Raised("Exception"))
           ELSE /\ files' = files \cup SavedPlots(student_id, drawn)
                                 \cup {File("reports", student_id, "report.json")}
                /\ ret' = Return("generate_student_report", student_id, "", 0,
                                 generate_student_report(student_id, now))
    /\ UNCHANGED <<tables, constructed, firstReport>>

-----------------------------------------------------------------------------
(* The analyzer session: any two-student snapshot, any sequence of calls. *)

SessionAssessmentRows(kind) ==
    {AssessmentRow(StudentIds[s], TopicKeys[k], DateOf(kind, 1), score, 25) :
        s \in 1..2, k \in {1, 4}, score \in {60, 85}}

SessionStudyRows(kind) ==
    {SessionRow(StudentIds[s], DateOf(kind, 1), 30, c) : s \in 1..2, c \in BOOLEAN}

\* The students the session's calls are about; either may have no rows.
SessionStudents == {StudentIds[1], StudentIds[2]}

Init ==
    \E kind \in DateKinds :
        \E A \in Tables(SessionAssessmentRows(kind), MaxAssessments),
           S \in Tables(SessionStudyRows(kind), MaxSessions) :
            Start(A, S)

Next ==
    \/ Construct
    \/ \E student_id \in SessionStudents : SummaryCall(student_id)
    \/ \E student_id \in SessionStudents : WeakTopicsCall(student_id)
    \/ \E student_id \in SessionStudents : StrongTopicsCall(student_id)
    \/ \E student_id \in SessionStudents, subject \in Range(Subjects) :
           PredictCall(student_id, subject)
    \/ \E student_id \in SessionStudents : RecommendCall(student_id)
    \/ ClassInsightsCall
    \/ \E n \in 1..MaxN : TopStudentsCall(n)
    \/ \E n \in 1..MaxN : StrugglingStudentsCall(n)
    \/ \E student_id \in SessionStudents, now \in Times : ReportCall(student_id, now)

Spec == Init /\ [][Next]_vars

-----------------------------------------------------------------------------
(* The series specification: one student's scores in one subject, of every *)
(* length up to MaxSeries, in table order, in reverse table order or all   *)
(* on one day; summary and prediction applied to it.                       *)

SeriesScores == {60, 70, 71, 73, 80}

DatePatterns == {"ascending", "descending", "tied"}

SeriesDay(pattern, i, n) ==
    IF pattern = "ascending" THEN i
    ELSE IF pattern = "descending" THEN n + 1 - i
    ELSE 1

SeriesTable(y, pattern) ==
    [i \in 1..Len(y) |->
        AssessmentRow(StudentIds[1], TopicKeys[1],
                      Timestamp(SeriesDay(pattern, i, Len(y))), y[i], 25)]

InitSeries ==
    \E n \in 0..MaxSeries, pattern \in DatePatterns :
        \E y \in [1..n -> SeriesScores] : Start(SeriesTable(y, pattern), <<>>)

NextSeries ==
    \/ Construct
    \/ SummaryCall(StudentIds[1])
    \/ \E subject \in Range(Subjects) : PredictCall(StudentIds[1], subject)

SpecSeries == InitSeries /\ [][NextSeries]_vars

-----------------------------------------------------------------------------
(* The window specification: one student's scores in one subject, of every *)
(* length from none to more than the 5 the forecast looks at, stored       *)
(* oldest first or newest first.                                           *)

MaxWindow == 6

WindowScores == {60, 70, 80}

InitWindow ==
    \E n \in 0..MaxWindow, pattern \in {"ascending", "descending"} :
        \E y \in [1..n -> WindowScores] : Start(SeriesTable(y, pattern), <<>>)

NextWindow ==
    \/ Construct
    \/ TrendCall(StudentIds[1])
    \/ \E subject \in Range(Subjects) : PredictCall(StudentIds[1], subject)

SpecWindow == InitWindow /\ [][NextWindow]_vars

-----------------------------------------------------------------------------
(* The end-to-end specification: the five assessments 50, 55, 60, 65, 70   *)
(* of one student, on any five increasing days of the calendar, stored in  *)
(* any row order.                                                          *)

MaxDay == 7

EndToEndScores == <<50, 55, 60, 65, 70>>

\* The choices of five days, oldest first.
IncreasingDays ==
    {d \in [1..Len(EndToEndScores) -> 1..MaxDay] :
        \A i \in 1..(Len(EndToEndScores) - 1) : d[i] < d[i + 1]}

\* The row orders: the permutations of the five positions.
RowOrders ==
    {p \in [1..Len(EndToEndScores) -> 1..Len(EndToEndScores)] :
        \A i, j \in 1..Len(EndToEndScores) : p[i] = p[j] => i = j}

InitEndToEnd ==
    \E d \in IncreasingDays, p \in RowOrders :
        Start([i \in 1..Len(EndToEndScores) |->
                  AssessmentRow(StudentIds[1], TopicKeys[1], Timestamp(d[p[i]]),
                                EndToEndScores[p[i]], 25)],
              <<>>)

NextEndToEnd ==
    \/ Construct
    \/ SummaryCall(StudentIds[1])
    \/ TrendCall(StudentIds[1])

SpecEndToEnd == InitEndToEnd /\ [][NextEndToEnd]_vars

-----------------------------------------------------------------------------
(* The topic specification: one student's rows over two topics of one      *)
(* subject, with scores around both thresholds, and another student's row. *)

TopicScores == {60, 70, 80, 85, 90}

TopicRows ==
    {AssessmentRow(StudentIds[1], TopicKeys[k], Timestamp(1), score, 25) :
        k \in 1..2, score \in TopicScores}
    \cup {AssessmentRow(StudentIds[2], TopicKeys[1], Timestamp(1), 60, 25)}

InitTopics == \E A \in Tables(TopicRows, MaxTopicRows) : Start(A, <<>>)

NextTopics ==
    \/ Construct
    \/ \E student_id \in {StudentIds[1], StudentIds[2]} : WeakTopicsCall(student_id)
    \/ \E student_id \in {StudentIds[1], StudentIds[2]} : StrongTopicsCall(student_id)

SpecTopics == InitTopics /\ [][NextTopics]_vars

-----------------------------------------------------------------------------
(* The skill-gap specification: one student's rows over four topics, so    *)
(* that more than three topics can be weak, with equal and unequal means.  *)

MaxSkillRows == 4

SkillScores == {50, 60, 90, 95}

SkillRows ==
    {AssessmentRow(StudentIds[1], TopicKeys[k], Timestamp(1), score, 25) :
        k \in 1..Len(TopicKeys), score \in SkillScores}

InitSkillGap == \E A \in Tables(SkillRows, MaxSkillRows) : Start(A, <<>>)

NextSkillGap ==
    \/ Construct
    \/ WeakTopicsCall(StudentIds[1])
    \/ StrongTopicsCall(StudentIds[1])
    \/ RecommendCall(StudentIds[1])

SpecSkillGap == InitSkillGap /\ [][NextSkillGap]_vars

-----------------------------------------------------------------------------
(* The recommendation specification: weak or strong topics, short or long  *)
(* time on task, completed or abandoned sessions, and another student's    *)
(* rows.                                                                   *)

RecRows ==
    {AssessmentRow(StudentIds[1], TopicKeys[k], Timestamp(1), score, time_spent) :
        k \in 1..2, score \in {60, 85}, time_spent \in {15, 25}}
    \cup {AssessmentRow(StudentIds[2], TopicKeys[1], Timestamp(1), 60, 15)}

RecSessionRows ==
    {SessionRow(StudentIds[1], Timestamp(1), 30, c) : c \in BOOLEAN}
    \cup {SessionRow(StudentIds[2], Timestamp(1), 30, FALSE)}

InitRecs ==
    \E A \in Tables(RecRows, MaxRecRows), S \in Tables(RecSessionRows, MaxRecSessions) :
        Start(A, S)

NextRecs ==
    \/ Construct
    \/ \E student_id \in {StudentIds[1], StudentIds[2]} : RecommendCall(student_id)

SpecRecs == InitRecs /\ [][NextRecs]_vars

-----------------------------------------------------------------------------
(* The class specification: empty and non-empty tables at class scope. *)

ClassRows ==
    {AssessmentRow(StudentIds[s], TopicKeys[1], Timestamp(1), score, 25) :
        s \in 1..3, score \in {60, 85}}

ClassSessionRows ==
    {SessionRow(StudentIds[1], Timestamp(1), duration, c) :
        duration \in {30}, c \in BOOLEAN}

InitClass ==
    \E A \in Tables(ClassRows, MaxClassRows),
       S \in Tables(ClassSessionRows, MaxClassSessions) :
        Start(A, S)

NextClass ==
    \/ Construct
    \/ ClassInsightsCall

SpecClass == InitClass /\ [][NextClass]_vars

-----------------------------------------------------------------------------
(* The ranking specification: three students' rows in every table order. *)

InitRanking == \E A \in Tables(ClassRows, MaxRankingRows) : Start(A, <<>>)

NextRanking ==
    \/ Construct
    \/ \E n \in 1..MaxN : TopStudentsCall(n)
    \/ \E n \in 1..MaxN : StrugglingStudentsCall(n)

SpecRanking == InitRanking /\ [][NextRanking]_vars

-----------------------------------------------------------------------------
(* The dashboard specification: the tables as the CSV files hold them,     *)
(* loaded, and student reports asked for students with and without rows.   *)

InitDashboard ==
    \E A \in Tables(SessionAssessmentRows("str"), MaxAssessments),
       S \in Tables(SessionStudyRows("str"), MaxSessions) :
        Start(A, S)

NextDashboard ==
    \/ LoadData
    \/ \E student_id \in SessionStudents, now \in Times :
           GenerateStudentReportCall(student_id, now)

SpecDashboard == InitDashboard /\ [][NextDashboard]_vars

-----------------------------------------------------------------------------
(* Properties.  What a call was about is read from ret. *)

\* The date-ordered scores of the rows of ret's student in ret's subject.
SubjectSeries ==
    Scores(SortByDate(SelectSeq(assessments,
        LAMBDA r : r.student_id = ret.student_id /\ r.subject = ret.subject)))

\* The date-ordered scores of all rows of ret's student.
StudentSeries == Scores(SortByDate(StudentAssessments(ret.student_id)))

\* sum of w[i] * y[i] over sum of w[i], to two decimals.
WeightedForecast(y, w) ==
    Round2(Rat(SeqSum([i \in 1..Len(y) |-> w[i] * y[i]]), SeqSum(w)))

\* C1 as stated: with 3 or 4 scores in the subject, predict_performance pairs
\* the date-ordered scores with the LAST k entries of [0.1, 0.15, 0.2, 0.25,
\* 0.3], renormalized; scores [60, 70, 80] give 71.33.
C1_SuffixWeights ==
    (ret.op = "predict" /\ Len(SubjectSeries) \in 3..4) =>
        /\ ret.val.prediction =
               WeightedForecast(SubjectSeries, Tail_n(Weights, Len(SubjectSeries)))
        /\ SubjectSeries = <<60, 70, 80>> => ret.val.prediction = Rat(7133, 100)

\* C1, amended: with 3 or 4 scores in the subject, predict_performance pairs
\* the date-ordered scores, oldest to newest, with the FIRST k entries of
\* [0.1, 0.15, 0.2, 0.25, 0.3], renormalized to sum to 1; scores [60, 70, 80]
\* get the weights [0.1, 0.15, 0.2] / 0.45 and the prediction 72.22, which is
\* neither the value the last k entries give (71.33) nor the plain mean (70).
C1_PrefixWeights ==
    (ret.op = "predict" /\ Len(SubjectSeries) \in 3..4) =>
        /\ ret.val.prediction =
               WeightedForecast(SubjectSeries, Head_n(Weights, Len(SubjectSeries)))
        /\ SubjectSeries = <<60, 70, 80>> =>
               /\ ret.val.prediction = Rat(7222, 100)
               /\ ret.val.prediction # Rat(7133, 100)
               /\ ~Eq(ret.val.prediction, Mean(SubjectSeries))

\* C1 witness: the rows are stored newest first, their date order is
\* [60, 70, 80], and the prediction returned is 72.22.
C1_Witness ==
    /\ ret.op = "predict"
    /\ SubjectSeries = <<60, 70, 80>>
    /\ Scores(assessments) = <<80, 70, 60>>
    /\ ret.val.prediction = Rat(7222, 100)

\* The slope of the series a trend label was computed from.
Slope == OLSSlope(StudentSeries)

\* C2 as stated: with at least 5 assessments the label is Strong Improvement
\* for slope > 0.5, Moderate Improvement for 0.1 < slope <= 0.5, Stable for
\* -0.1 <= slope <= 0.1, Slight Decline for -0.5 <= slope < -0.1 and Needs
\* Attention for slope < -0.5.
C2_ClosedLowerBounds ==
    (ret.op = "summary" /\ Len(StudentSeries) >= 5) =>
        ret.val.improvement_trend =
            IF Gt(Slope, Rat(1, 2)) THEN "Strong Improvement"
            ELSE IF Gt(Slope, Rat(1, 10)) THEN "Moderate Improvement"
            ELSE IF Ge(Slope, Rat(-1, 10)) THEN "Stable"
            ELSE IF Ge(Slope, Rat(-1, 2)) THEN "Slight Decline"
            ELSE "Needs Attention"

\* C2, amended: with at least 5 assessments the label is Strong Improvement
\* for slope > 0.5, Moderate Improvement for 0.1 < slope <= 0.5, Stable for
\* -0.1 < slope <= 0.1, Slight Decline for -0.5 < slope <= -0.1 and Needs
\* Attention for slope <= -0.5: a slope of exactly 0.5 is Moderate
\* Improvement, exactly 0.1 is Stable, exactly -0.1 is Slight Decline and
\* exactly -0.5 is Needs Attention.
C2_OpenLowerBounds ==
    (ret.op = "summary" /\ Len(StudentSeries) >= 5) =>
        LET label == ret.val.improvement_trend
            num == Slope.num
            den == Slope.den
        IN  /\ (2 * num > den) <=> (label = "Strong Improvement")
            /\ (10 * num > den /\ 2 * num <= den) <=> (label = "Moderate Improvement")
            /\ (10 * num > -den /\ 10 * num <= den) <=> (label = "Stable")
            /\ (2 * num > -den /\ 10 * num <= -den) <=> (label = "Slight Decline")
            /\ (2 * num <= -den) <=> (label = "Needs Attention")

\* C2 witness: a series of 5 whose slope is exactly -0.1, labelled Slight
\* Decline.
C2_Witness ==
    /\ ret.op = "summary"
    /\ Len(StudentSeries) = 5
    /\ 10 * Slope.num = -Slope.den
    /\ ret.val.improvement_trend = "Slight Decline"

\* C3 as stated: no operation of the analyzer, the constructor included,
\* changes a column of the caller's students, assessments or sessions table.
C3_BaseTablesUnchanged == [][tables' = tables]_vars

-----------------------------------------------------------------------------
(* C4 *)

ReportFields ==
    {"student_id", "generated_at", "performance_summary", "weak_topics",
     "strong_topics", "subject_predictions", "recommendations"}

ClassFields ==
    {"total_students", "total_assessments", "class_average", "top_performers",
     "struggling_students", "subject_difficulty", "engagement_metrics"}

\* C4: generate_insight_report for a student with zero assessment records
\* returns the result that holds the error field and none of the report
\* fields, whatever the sessions table holds (a report for a student with
\* assessments holds the report fields and no error field); and
\* get_class_insights on the same snapshot returns the full class report.
C4_NoDataIsSignalled ==
    /\ ret.op = "report" =>
           IF Len(StudentAssessments(ret.student_id)) = 0
           THEN DOMAIN ret.val = {"error"}
           ELSE DOMAIN ret.val = ReportFields
    /\ ret.op = "class_insights" => DOMAIN ret.val = ClassFields

\* C4 witness: the first report of the session was asked for a student with
\* a study session and no assessment and is the error result, and the class
\* insights returned afterwards are complete.
C4_Witness ==
    /\ firstReport # None
    /\ Len(StudentAssessments(firstReport.student_id)) = 0
    /\ Len(StudentSessions(firstReport.student_id)) > 0
    /\ DOMAIN firstReport.report = {"error"}
    /\ ret.op = "class_insights"
    /\ DOMAIN ret.val = ClassFields

-----------------------------------------------------------------------------
(* C5 *)

TopicRowsOf(student_id, key) ==
    SelectSeq(StudentAssessments(student_id),
              LAMBDA r : r.subject = key[1] /\ r.topic = key[2])

\* The topics of a student whose mean score is below 70.
TopicsBelow70(student_id) ==
    {key \in Range(TopicKeys) :
        /\ Len(TopicRowsOf(student_id, key)) > 0
        /\ SeqSum(Scores(TopicRowsOf(student_id, key)))
               < 70 * Len(TopicRowsOf(student_id, key))}

LowCompletion(student_id) ==
    /\ Len(StudentSessions(student_id)) > 0
    /\ 10 * CountTrue(StudentSessions(student_id)) < 7 * Len(StudentSessions(student_id))

TimeSpent(student_id) ==
    SeqSum([i \in 1..Len(StudentAssessments(student_id)) |->
               StudentAssessments(student_id)[i].time_spent_minutes])

\* The priority and type of each recommendation, in order.
Kinds(recommendations) ==
    [i \in 1..Len(recommendations) |->
        <<recommendations[i].priority, recommendations[i].type>>]

ShortTimeOnTask(student_id) ==
    /\ Len(StudentAssessments(student_id)) > 0
    /\ TimeSpent(student_id) < 20 * Len(StudentAssessments(student_id))

\* C5: get_study_recommendations emits each rule exactly when its own
\* condition holds, independently of the other two, in the order Skill Gap
\* (High), Study Habits (Medium), Time Investment (Low); a student with one
\* weak topic, no session and mean time-spent 25 gets exactly the Skill Gap
\* recommendation.
C5_RulesIndependent ==
    ret.op = "recommendations" =>
        LET s == ret.student_id
        IN  /\ Kinds(ret.val) =
                   (IF TopicsBelow70(s) # {} THEN << <<"High", "Skill Gap">> >> ELSE <<>>)
                   \o (IF LowCompletion(s) THEN << <<"Medium", "Study Habits">> >> ELSE <<>>)
                   \o (IF ShortTimeOnTask(s) THEN << <<"Low", "Time Investment">> >> ELSE <<>>)
            /\ (/\ Cardinality(TopicsBelow70(s)) = 1
                /\ Len(StudentSessions(s)) = 0
                /\ TimeSpent(s) = 25 * Len(StudentAssessments(s)))
               => Kinds(ret.val) = << <<"High", "Skill Gap">> >>

\* C5 witness: all three conditions hold at once and all three
\* recommendations are returned, in order.
C5_Witness ==
    /\ ret.op = "recommendations"
    /\ TopicsBelow70(ret.student_id) # {}
    /\ LowCompletion(ret.student_id)
    /\ ShortTimeOnTask(ret.student_id)
    /\ Kinds(ret.val) =
           << <<"High", "Skill Gap">>, <<"Medium", "Study Habits">>,
              <<"Low", "Time Investment">> >>

-----------------------------------------------------------------------------
(* C6 *)

KeysOf(topics) == {<<topics[i].subject, topics[i].topic>> : i \in 1..Len(topics)}

TopicSum(student_id, key) == SeqSum(Scores(TopicRowsOf(student_id, key)))

TopicCount(student_id, key) == Len(TopicRowsOf(student_id, key))

\* C6: with the default thresholds, identify_weak_topics returns exactly the
\* (subject, topic) groups of the student with mean < 70 and
\* identify_strong_topics exactly those with mean >= 85, each once; the two
\* results are disjoint, a mean of exactly 70 is in neither, a mean of
\* exactly 85 is strong and a mean in [70, 85) is in neither.
C6_WeakStrongPartition ==
    LET s == ret.student_id
        attempted == {key \in Range(TopicKeys) : TopicCount(s, key) > 0}
    IN  /\ ret.op = "weak_topics" =>
               /\ KeysOf(ret.val) =
                      {key \in attempted : TopicSum(s, key) < 70 * TopicCount(s, key)}
               /\ Len(ret.val) = Cardinality(KeysOf(ret.val))
        /\ ret.op = "strong_topics" =>
               /\ KeysOf(ret.val) =
                      {key \in attempted : TopicSum(s, key) >= 85 * TopicCount(s, key)}
               /\ Len(ret.val) = Cardinality(KeysOf(ret.val))
        /\ ret.op \in {"weak_topics", "strong_topics"} =>
               /\ KeysOf(identify_weak_topics(s, 70))
                      \cap KeysOf(identify_strong_topics(s, 85)) = {}
               /\ \A key \in attempted :
                      (/\ TopicSum(s, key) >= 70 * TopicCount(s, key)
                       /\ TopicSum(s, key) < 85 * TopicCount(s, key))
                      => /\ key \notin KeysOf(identify_weak_topics(s, 70))
                         /\ key \notin KeysOf(identify_strong_topics(s, 85))

\* C6 witness: one topic of the student has mean exactly 70 and the other
\* mean exactly 85; the weak result is empty and the strong topic is in the
\* strong result.
C6_Witness ==
    /\ ret.op = "weak_topics"
    /\ ret.val = <<>>
    /\ TopicCount(ret.student_id, TopicKeys[1]) = 2
    /\ TopicSum(ret.student_id, TopicKeys[1]) = 140
    /\ TopicCount(ret.student_id, TopicKeys[2]) = 1
    /\ TopicSum(ret.student_id, TopicKeys[2]) = 85
    /\ KeysOf(identify_strong_topics(ret.student_id, 85)) = {TopicKeys[2]}

-----------------------------------------------------------------------------
(* C7, C8 *)

\* C7 as stated: when the sessions table or the assessments table is empty,
\* no numeric field of get_class_insights is NaN.
C7_NoNaNOnEmptyTables ==
    (ret.op = "class_insights" /\ (Len(sessions) = 0 \/ Len(assessments) = 0)) =>
        /\ ~IsNaN(ret.val.class_average)
        /\ ~IsNaN(ret.val.engagement_metrics.completion_rate)
        /\ ~IsNaN(ret.val.engagement_metrics.avg_session_duration)

\* C8: the class completion rate, which the code reports to two decimals,
\* is completed sessions / total sessions x 100 (the nearest hundredth of
\* it) whenever a session exists, and is the number 0, not NaN, when the
\* sessions table has no rows.
C8_CompletionRate ==
    ret.op = "class_insights" =>
        LET rate == ret.val.engagement_metrics.completion_rate
            total == Len(sessions)
            completed == CountTrue(sessions)
            err == rate.num * total - completed * 100 * 100
        IN  /\ IsNumber(rate)
            /\ rate.den = 100
            /\ total = 0 => rate.num = 0
            /\ total > 0 => 2 * err <= total /\ 2 * err >= -total

\* C8 witness: the class insights of a snapshot with assessments and no
\* sessions report a completion rate of 0.
C8_Witness ==
    /\ ret.op = "class_insights"
    /\ Len(sessions) = 0
    /\ Len(assessments) > 0
    /\ ret.val.engagement_metrics.completion_rate = Rat(0, 100)

-----------------------------------------------------------------------------
(* C9 *)

MeanOf(student_id) == Mean(Scores(StudentAssessments(student_id)))

Graded == {s \in Range(StudentIds) : Len(StudentAssessments(s)) > 0}

\* The row of a student's first assessment in the table.
FirstRow(student_id) ==
    CHOOSE i \in 1..Len(assessments) :
        /\ assessments[i].student_id = student_id
        /\ \A j \in 1..(i - 1) : assessments[j].student_id # student_id

Ids(result) == [i \in 1..Len(result) |-> result[i].student_id]

\* The rank of each student by identifier, and by first row in the table.
IdOrder == [s \in Graded |-> IndexOf(StudentIds, s)]

TableOrder == [s \in Graded |-> FirstRow(s)]

\* a is ranked ahead of b: the better mean (higher if descending, lower if
\* not), and of equal means the one that order puts first.
Ahead(a, b, descending, order) ==
    \/ IF descending THEN Gt(MeanOf(a), MeanOf(b)) ELSE Lt(MeanOf(a), MeanOf(b))
    \/ Eq(MeanOf(a), MeanOf(b)) /\ order[a] < order[b]

\* result is the first n of the graded students as Ahead ranks them, each
\* with its mean score.
Ranked(result, n, descending, order) ==
    /\ Len(result) = (IF n < Cardinality(Graded) THEN n ELSE Cardinality(Graded))
    /\ Range(Ids(result)) \subseteq Graded
    /\ \A i \in 1..Len(result) : result[i].average_score = MeanOf(result[i].student_id)
    /\ \A i, j \in 1..Len(result) :
           i < j => Ahead(result[i].student_id, result[j].student_id, descending, order)
    /\ \A a \in Range(Ids(result)), b \in Graded \ Range(Ids(result)) :
           Ahead(a, b, descending, order)

\* C9 as stated: the students are ranked by mean score and the first n
\* selected, equal means in the order the students first appear in the
\* assessments table.
C9_TiesByTableOrder ==
    /\ ret.op = "top_students" => Ranked(ret.val, ret.n, TRUE, TableOrder)
    /\ ret.op = "struggling_students" => Ranked(ret.val, ret.n, FALSE, TableOrder)

\* C9, amended: the students are ranked by mean score and the first n
\* selected; of two students with equal mean score the one whose identifier
\* sorts first is ranked first, whatever the order of their rows in the
\* assessments table.
C9_TiesByStudentId ==
    /\ ret.op = "top_students" => Ranked(ret.val, ret.n, TRUE, IdOrder)
    /\ ret.op = "struggling_students" => Ranked(ret.val, ret.n, FALSE, IdOrder)

\* C9 witness: two students have the same mean, the rows of the one with the
\* later identifier come first, and the top 1 is the one with the earlier
\* identifier.
C9_Witness ==
    /\ ret.op = "top_students"
    /\ ret.n = 1
    /\ Graded = {StudentIds[1], StudentIds[2]}
    /\ Eq(MeanOf(StudentIds[1]), MeanOf(StudentIds[2]))
    /\ FirstRow(StudentIds[2]) < FirstRow(StudentIds[1])
    /\ Ids(ret.val) = <<StudentIds[1]>>

-----------------------------------------------------------------------------
(* C10 *)

\* A report without its generation timestamp.
WithoutTimestamp(report) ==
    [k \in DOMAIN report \ {"generated_at"} |-> report[k]]

-----------------------------------------------------------------------------
(* C11 *)

SlopeLabels ==
    {"Strong Improvement", "Moderate Improvement", "Stable", "Slight Decline",
     "Needs Attention"}

\* C11: the trend label of a series is 'Insufficient Data' if and only if
\* the series has fewer than 5 assessments (0 to 4), and with 5 or more it is
\* one of the five slope labels; the same holds of the recent_trend of a
\* numeric prediction, over the student's series in the subject.
C11_InsufficientIffUnder5 ==
    /\ ret.op = "trend" =>
           LET n == Len(StudentAssessments(ret.student_id))
           IN  /\ (ret.val = "Insufficient Data") <=> (n < 5)
               /\ n >= 5 => ret.val \in SlopeLabels
    /\ (ret.op = "predict" /\ Len(SubjectSeries) >= 3) =>
           /\ (ret.val.recent_trend = "Insufficient Data") <=> (Len(SubjectSeries) < 5)
           /\ Len(SubjectSeries) >= 5 => ret.val.recent_trend \in SlopeLabels

\* C11 witness: the labels on both sides of the boundary exist for one
\* student: the trend of the 5 rows the table holds is a slope label, and the
\* trend of its first 4 rows alone is 'Insufficient Data'.
C11_Witness ==
    /\ ret.op = "trend"
    /\ Len(StudentAssessments(ret.student_id)) = 5
    /\ ret.val \in SlopeLabels
    /\ calculate_improvement_trend(Head_n(StudentAssessments(ret.student_id), 4))
           = "Insufficient Data"

-----------------------------------------------------------------------------
(* C12 *)

\* The last min(5, count) scores of the date-ordered series of ret's student
\* in ret's subject.
RecentWindow ==
    LET k == IF Len(SubjectSeries) < 5 THEN Len(SubjectSeries) ELSE 5
    IN  SubSeq(SubjectSeries, Len(SubjectSeries) - k + 1, Len(SubjectSeries))

\* C12: predict_performance returns prediction None, with confidence 'Low',
\* exactly when the student has fewer than 3 assessments in the subject
\* (none included); with 3 or more the prediction is a number, the weighted
\* average (to two decimals) of the most recent min(5, count) scores in date
\* order.
C12_PredictionNeedsThree ==
    ret.op = "predict" =>
        /\ (ret.val.prediction = None) <=> (Len(SubjectSeries) < 3)
        /\ Len(SubjectSeries) < 3 => ret.val.confidence = "Low"
        /\ Len(SubjectSeries) >= 3 =>
               /\ IsNumber(ret.val.prediction)
               /\ ret.val.prediction =
                      WeightedForecast(RecentWindow, Head_n(Weights, Len(RecentWindow)))

\* C12 witness: six scores stored newest first; the prediction is the one
\* the five most recent give, which is not what the five oldest would give.
C12_Witness ==
    /\ ret.op = "predict"
    /\ Len(SubjectSeries) = 6
    /\ assessments[1].assessment_date.day = 6
    /\ ret.val.prediction = WeightedForecast(SubSeq(SubjectSeries, 2, 6), Weights)
    /\ ret.val.prediction # WeightedForecast(SubSeq(SubjectSeries, 1, 5), Weights)

-----------------------------------------------------------------------------
(* C13 *)

\* The mean score of a student in a topic, from the table.
TopicMean(student_id, key) == Rat(TopicSum(student_id, key), TopicCount(student_id, key))

\* The topic records are in ascending (descending) order of avg_score.
Ascending(topics) ==
    \A i, j \in 1..Len(topics) : i < j => ~Gt(topics[i].avg_score, topics[j].avg_score)

Descending(topics) ==
    \A i, j \in 1..Len(topics) : i < j => ~Lt(topics[i].avg_score, topics[j].avg_score)

\* C13: identify_weak_topics returns the weak topics in ascending order of
\* mean and identify_strong_topics the strong ones in descending order; the
\* Skill Gap recommendation exists exactly when a topic is weak, and names
\* min(3, number of weak topics) distinct weak topics, each with its mean, in
\* ascending order of mean, none of them with a higher mean than a weak topic
\* it leaves out.
C13_SkillGapNamesLowestThree ==
    LET s == ret.student_id
        weak == TopicsBelow70(s)
    IN  /\ ret.op = "weak_topics" => Ascending(ret.val)
        /\ ret.op = "strong_topics" => Descending(ret.val)
        /\ ret.op = "recommendations" =>
               IF weak = {} THEN \A i \in 1..Len(ret.val) : ret.val[i].type # "Skill Gap"
               ELSE LET named == ret.val[1].details
                    IN  /\ ret.val[1].type = "Skill Gap"
                        /\ ret.val[1].priority = "High"
                        /\ Len(named) = (IF Cardinality(weak) < 3 THEN Cardinality(weak) ELSE 3)
                        /\ Cardinality(KeysOf(named)) = Len(named)
                        /\ KeysOf(named) \subseteq weak
                        /\ \A i \in 1..Len(named) :
                               Eq(named[i].avg_score,
                                  TopicMean(s, <<named[i].subject, named[i].topic>>))
                        /\ Ascending(named)
                        /\ \A i \in 1..Len(named), key \in weak \ KeysOf(named) :
                               ~Gt(named[i].avg_score, TopicMean(s, key))
                        /\ ret.val[1].message.args =
                               [i \in 1..Len(named) |-> named[i].topic]

\* C13 witness: four topics are weak, the lowest mean belongs to the last
\* topic in key order, and the recommendation names three topics starting
\* with that one.
C13_Witness ==
    /\ ret.op = "recommendations"
    /\ Cardinality(TopicsBelow70(ret.student_id)) = 4
    /\ TopicSum(ret.student_id, TopicKeys[4]) = 50
    /\ TopicSum(ret.student_id, TopicKeys[1]) = 60
    /\ Len(ret.val[1].details) = 3
    /\ ret.val[1].details[1].topic = TopicKeys[4][2]

-----------------------------------------------------------------------------
(* C14 *)

\* The scores of ret's student oldest first, for rows of distinct dates: the
\* score at position k is that of the row with k - 1 older rows.
ByDay ==
    LET df == StudentAssessments(ret.student_id)
        older(i) == Cardinality({j \in 1..Len(df) :
                        df[j].assessment_date.day < df[i].assessment_date.day})
    IN  [k \in 1..Len(df) |-> df[CHOOSE i \in 1..Len(df) : older(i) = k - 1].score]

\* sum((x - mean x)(y - mean y)) / sum((x - mean x)^2) for x = 0, 1, 2, ...,
\* numerator and denominator both multiplied by n^2.
LeastSquaresSlope(y) ==
    LET n == Len(y)
        sx == SeqSum([i \in 1..n |-> i - 1])
        sy == SeqSum(y)
    IN  Rat(SeqSum([i \in 1..n |-> (n * (i - 1) - sx) * (n * y[i] - sy)]),
            SeqSum([i \in 1..n |-> (n * (i - 1) - sx) * (n * (i - 1) - sx)]))

\* C14: for the student whose scores oldest first are [50, 55, 60, 65, 70],
\* whatever the row order of the table and whatever the gaps between the
\* dates, the least-squares slope of score against position 0, 1, 2, ... is
\* 5, it is the slope the trend is computed from, the trend is 'Strong
\* Improvement' and average_score is 60.
C14_SlopeOverPositions ==
    /\ ret.op \in {"summary", "trend"} =>
           /\ ByDay = EndToEndScores
           /\ Eq(LeastSquaresSlope(ByDay), Int2Rat(5))
           /\ Eq(Slope, LeastSquaresSlope(ByDay))
    /\ ret.op = "trend" => ret.val = "Strong Improvement"
    /\ ret.op = "summary" =>
           /\ ret.val.improvement_trend = "Strong Improvement"
           /\ Eq(ret.val.average_score, Int2Rat(60))

\* C14 witness: the rows are stored newest first, the dates are days 1, 2,
\* 3, 6 and 7, and the summary reports 'Strong Improvement'.
C14_Witness ==
    /\ ret.op = "summary"
    /\ Scores(assessments) = <<70, 65, 60, 55, 50>>
    /\ {assessments[i].assessment_date.day : i \in 1..Len(assessments)} = {1, 2, 3, 6, 7}
    /\ ret.val.improvement_trend = "Strong Improvement"

-----------------------------------------------------------------------------
(* C15 *)

\* The subjects in which a student has at least one assessment.
Attempted(student_id) ==
    {r.subject : r \in Range(StudentAssessments(student_id))}

\* The mean score of a student in a subject, from the table.
SubjectMean(student_id, subject) ==
    Mean(Scores(SelectSeq(StudentAssessments(student_id),
                          LAMBDA r : r.subject = subject)))

\* C15: a performance summary names as best_subject a subject the student
\* has an assessment in whose mean score no other such subject exceeds, and
\* as weakest_subject one whose mean none falls below; for a student with no
\* assessment there is no summary (None).
C15_BestWeakestOverAttempted ==
    ret.op = "summary" =>
        LET s == ret.student_id
        IN  IF Attempted(s) = {} THEN ret.val = None
            ELSE /\ ret.val # None
                 /\ ret.val.best_subject \in Attempted(s)
                 /\ ret.val.weakest_subject \in Attempted(s)
                 /\ \A a \in Attempted(s) :
                        /\ ~Gt(SubjectMean(s, a), SubjectMean(s, ret.val.best_subject))
                        /\ ~Lt(SubjectMean(s, a), SubjectMean(s, ret.val.weakest_subject))

\* C15 witness: the student's better mean is in the subject that comes
\* second in key order, and another subject's rows of another student do not
\* count: best is Science, weakest Mathematics.
C15_Witness ==
    /\ ret.op = "summary"
    /\ Attempted(ret.student_id) = {"Mathematics", "Science"}
    /\ Lt(SubjectMean(ret.student_id, "Mathematics"), SubjectMean(ret.student_id, "Science"))
    /\ ret.val.best_subject = "Science"
    /\ ret.val.weakest_subject = "Mathematics"

-----------------------------------------------------------------------------
(* C16 *)

\* C16 as stated: the confidence of a numeric prediction is 'High' iff the
\* sample standard deviation (divide by n - 1) of the recent window is < 5,
\* 'Medium' iff it is >= 5 and < 10, and 'Low' otherwise: the estimator of
\* score_std in the summary and of std in subject_difficulty.
C16_SampleStdEverywhere ==
    (ret.op = "predict" /\ Len(SubjectSeries) >= 3) =>
        LET sample == pandas_std(RecentWindow)
        IN  /\ (ret.val.confidence = "High") <=> StdLt(sample, 5)
            /\ (ret.val.confidence = "Medium") <=> (~StdLt(sample, 5) /\ StdLt(sample, 10))
            /\ (ret.val.confidence = "Low") <=> ~StdLt(sample, 10)

-----------------------------------------------------------------------------
(* C17 *)

\* C17: the recent_trend of a numeric prediction is the trend label of the
\* student's whole date-ordered series in the subject: 'Insufficient Data'
\* when the series has 3 or 4 scores (the prediction being a number), and
\* with 5 or more the label of the least-squares slope over all of them, not
\* over the last 5.
C17_TrendOverWholeSeries ==
    (ret.op = "predict" /\ Len(SubjectSeries) >= 3) =>
        /\ IsNumber(ret.val.prediction)
        /\ ret.val.recent_trend =
               IF Len(SubjectSeries) < 5 THEN "Insufficient Data"
               ELSE TrendLabel(LeastSquaresSlope(SubjectSeries))

\* C17 witness: a series of 6 whose last 5 scores alone would be labelled
\* otherwise than the prediction's recent_trend: the oldest score decides.
C17_Witness ==
    /\ ret.op = "predict"
    /\ Len(SubjectSeries) = 6
    /\ ret.val.recent_trend # TrendLabel(LeastSquaresSlope(RecentWindow))

-----------------------------------------------------------------------------
(* C18 *)

\* C18 as stated: in every report that is not the error result, the numeric
\* fields of performance_summary are numbers, never NaN: completion_rate is
\* in [0, 100] also for a student without study sessions, and score_std is
\* a number also for a student with a single assessment.
C18_SummaryFieldsAreNumbers ==
    (ret.op = "report" /\ DOMAIN ret.val # {"error"}) =>
        LET summary == ret.val.performance_summary
        IN  /\ summary.total_assessments \in Nat
            /\ summary.total_study_time \in Nat
            /\ IsNumber(summary.average_score)
            /\ IsNumber(summary.median_score)
            /\ IsNumber(summary.score_std)
            /\ IsNumber(summary.completion_rate)
            /\ Ge(summary.completion_rate, Int2Rat(0))
            /\ Ge(Int2Rat(100), summary.completion_rate)

-----------------------------------------------------------------------------
(* C19 *)

\* C19 as stated: generate_student_report for a student id with zero
\* assessment records, after load_data, returns without raising: it does not
\* read performance_summary from the result that holds only the error field.
C19_NoDataReportCompletes ==
    (/\ ret.op = "generate_student_report"
     /\ Len(StudentAssessments(ret.student_id)) = 0)
    => "raised" \notin DOMAIN ret.val

====
